---- MODULE Spec2Model ----
(***************************************************************************)
(* Integrated Physical & Mental Health Tracker.                            *)
(*                                                                         *)
(* The React front end (Dashboard, WellnessCard, Chart, PhysicalHealthForm,*)
(* MentalHealthForm) is modelled from its sources.  The Wellness Analytics *)
(* Engine behind GET /health-summary/{user_id} (backend/health_analytics.py*)
(* in the README's project structure) is modelled from its specification:  *)
(* normalizer, aggregator, classifier, insight generator, trend builder.   *)
(*                                                                         *)
(* Numbers.  Scores, sub-scores and averages are fixed-point integers in   *)
(* units of 1/Scale (a composite of 84.999 is 84999).  Divisions round     *)
(* towards minus infinity (\div).                                          *)
(***************************************************************************)
EXTENDS Integers, Sequences, FiniteSets, TLC

VARIABLES
    records,        \* Record Store: the set of logged records of the user
    summary,        \* engine: the response value of the last computeSummary
    pureIn,         \* pure-function harness: [fn, x] the function and its input
    pureOut,        \* pure-function harness: the value returned, or None
    userId,         \* localStorage "user_id": Null or Just(string)
    mounted,        \* Dashboard: its first effect has run
    healthSummary,  \* Dashboard state: Null or Just(response body)
    loading,        \* Dashboard state
    error,          \* Dashboard state: Null or Just(message)
    showPhysicalForm,   \* Dashboard state
    showMentalForm,     \* Dashboard state
    refreshTrigger, \* Dashboard state
    fetches,        \* GET /health-summary requests in flight (by trigger value)
    lastOutcome,    \* what the backend did with the fetch that completed last
    answered,       \* the fetches that completed: <<trigger value, outcome>>
    formKind,       \* which form component is mounted: "physical" or "mental"
    form,           \* form state: field name -> entered string
    isLoading,      \* form state
    formError,      \* form state `error`: Null or Just(message)
    success,        \* form state
    saving,         \* the POST in flight: Null or Just(request body)
    timers,         \* pending setTimeout(() => setSuccess(false), 3000) calls
    formUserId,     \* form constant `userId`: localStorage as of the last render
    location,       \* router: the path of the route that is rendered
    isLogin,        \* SignIn state
    signInError,    \* SignIn state `error`: a string, "" when there is none
    signInMessage,  \* SignIn state `message`
    authPending,    \* signup / login requests in flight
    attempts,       \* signup / login requests sent so far
    oauthLoading,   \* OAuthCallback state `loading`
    oauthError,     \* OAuthCallback state `error`: Null or Just(message)
    oauthPending    \* POST /google-fit/connect requests in flight

engineVars == <<records, summary>>
pureVars == <<pureIn, pureOut>>
dashVars ==
    <<userId, mounted, healthSummary, loading, error, showPhysicalForm,
      showMentalForm, refreshTrigger, fetches, lastOutcome, answered>>

formVars ==
    <<formKind, form, isLoading, formError, success, saving, timers,
      formUserId>>

navVars ==
    <<location, isLogin, signInError, signInMessage, authPending, attempts,
      oauthLoading, oauthError, oauthPending>>

vars == <<engineVars, pureVars, dashVars, formVars, navVars>>

None == [kind |-> "none"]   \* no value yet (before the first call)
\* an optional JavaScript value: Null (null / undefined) or Just(v)
Null == [isNull |-> TRUE]
Just(v) == [isNull |-> FALSE, val |-> v]

----------------------------------------------------------------------------
(* Bounds of the model *)

MaxDay == 3         \* calendar days are 0..MaxDay, today is MaxDay
WindowDays == 3     \* trailing window length in days (14 by default)
MaxRecords == 3     \* records in the store

Today == MaxDay
Days == 0..MaxDay

----------------------------------------------------------------------------
(* Arithmetic helpers *)

Min(a, b) == IF a <= b THEN a ELSE b
Max(a, b) == IF a >= b THEN a ELSE b
Abs(a) == IF a < 0 THEN -a ELSE a
Clamp(v, lo, hi) == Max(lo, Min(hi, v))

RECURSIVE SumOver(_, _)
\* sum of f[x] over the finite set S
SumOver(S, f) ==
    IF S = {} THEN 0
    ELSE LET x == CHOOSE y \in S : TRUE
         IN f[x] + SumOver(S \ {x}, f)

----------------------------------------------------------------------------
(* 4.1 Metric Normalizer *)

Scale == 1000                   \* fixed-point units per score point
Full == 100 * Scale             \* the sub-score 100

HeartRateLow == 60              \* ideal band 60..100 bpm
HeartRateHigh == 100
HeartRateOuter == 40            \* 0 beyond 40 bpm from the nearest band edge
IdealSys == 120                 \* ideal blood pressure 120/80
IdealDia == 80
PressureOuter == 40             \* 0 beyond 40 mmHg from the ideal
StepsTarget == 10000            \* 100 at the target, capped above
SleepLow == 7                   \* ideal band 7..9 hours
SleepHigh == 9
SleepOuter == 4                 \* 0 beyond 4 hours from the nearest band edge
ScaleLow == 1                   \* 1..10 self-report scales
ScaleHigh == 10

\* linear decay with the distance from the ideal, floored at 0 from `outer` on
Decay(dist, outer) ==
    IF dist >= outer THEN 0 ELSE Full - ((dist * Full) \div outer)

\* distance of v from the band lo..hi (0 inside the band)
BandDistance(v, lo, hi) ==
    IF v < lo THEN lo - v ELSE IF v > hi THEN v - hi ELSE 0

\* a heart-rate score that penalizes only the rates above the band
HeartRateScoreHighOnly(v) ==
    IF v > HeartRateHigh THEN Decay(v - HeartRateHigh, HeartRateOuter)
    ELSE Full

HeartRateScore(v) ==
    Decay(BandDistance(v, HeartRateLow, HeartRateHigh), HeartRateOuter)

\* the worse (minimum) of the systolic and the diastolic sub-score
PressureScore(sys, dia) ==
    Min(Decay(Abs(sys - IdealSys), PressureOuter),
        Decay(Abs(dia - IdealDia), PressureOuter))

\* InvalidMetricValue: negative steps are clamped to 0
ClampSteps(v) == Max(0, v)

StepsScore(v) == Min(Full, (ClampSteps(v) * Full) \div StepsTarget)

ClampHours(v) == Clamp(v, 0, 24)

SleepScore(v) ==
    Decay(BandDistance(ClampHours(v), SleepLow, SleepHigh), SleepOuter)

\* InvalidMetricValue: a 1..10 value is clamped to the nearest bound
ClampScale(v) == Clamp(v, ScaleLow, ScaleHigh)

\* stress / anxiety, lower is better: 1 -> 100, 10 -> 0
InverseScore(v) ==
    ((ScaleHigh - ClampScale(v)) * Full) \div (ScaleHigh - ScaleLow)

\* mood / energy, higher is better: 1 -> 0, 10 -> 100
DirectScore(v) ==
    ((ClampScale(v) - ScaleLow) * Full) \div (ScaleHigh - ScaleLow)

Metrics ==
    {"heart_rate", "blood_pressure", "steps", "sleep",
     "stress", "anxiety", "mood", "energy"}

\* the record fields a metric reads
MetricFields(m) ==
    CASE m = "heart_rate" -> {"heart_rate"}
      [] m = "blood_pressure" -> {"bp_sys", "bp_dia"}
      [] m = "steps" -> {"steps"}
      [] m = "sleep" -> {"sleep_duration"}
      [] m = "stress" -> {"stress_level"}
      [] m = "anxiety" -> {"anxiety_level"}
      [] m = "mood" -> {"mood_score"}
      [] m = "energy" -> {"energy_level"}

\* a record contributes to a metric when it contains the metric's fields
Contributes(r, m) == MetricFields(m) \subseteq DOMAIN r.vals

\* the sub-score of metric m of a record that contributes to it
SubScore(r, m) ==
    CASE m = "heart_rate" -> HeartRateScore(r.vals["heart_rate"])
      [] m = "blood_pressure" ->
            PressureScore(r.vals["bp_sys"], r.vals["bp_dia"])
      [] m = "steps" -> StepsScore(r.vals["steps"])
      [] m = "sleep" -> SleepScore(r.vals["sleep_duration"])
      [] m = "stress" -> InverseScore(r.vals["stress_level"])
      [] m = "anxiety" -> InverseScore(r.vals["anxiety_level"])
      [] m = "mood" -> DirectScore(r.vals["mood_score"])
      [] m = "energy" -> DirectScore(r.vals["energy_level"])

\* the raw value of a display/trend field, clamped into its domain
RawValue(r, f) ==
    CASE f = "steps" -> ClampSteps(r.vals[f])
      [] f = "sleep_duration" -> ClampHours(r.vals[f])
      [] f \in {"stress_level", "anxiety_level", "mood_score", "energy_level"}
            -> ClampScale(r.vals[f])
      [] OTHER -> r.vals[f]

----------------------------------------------------------------------------
(* Record Store *)

\* the example records of the model: r.vals maps the fields a record holds
PhysicalExample ==
    ("heart_rate" :> 72) @@ ("bp_sys" :> 118) @@ ("bp_dia" :> 78)
        @@ ("steps" :> 9000)
PhysicalOutOfDomain ==
    ("heart_rate" :> 130) @@ ("bp_sys" :> 150) @@ ("bp_dia" :> 95)
        @@ ("steps" :> -500)
MentalExample ==
    ("mood_score" :> 8) @@ ("stress_level" :> 3) @@ ("anxiety_level" :> 2)
        @@ ("energy_level" :> 7)
MentalOutOfDomain ==
    ("mood_score" :> 12) @@ ("stress_level" :> 0) @@ ("anxiety_level" :> 11)
        @@ ("energy_level" :> -1)
MentalWorst ==
    ("mood_score" :> 1) @@ ("stress_level" :> 10) @@ ("anxiety_level" :> 10)
        @@ ("energy_level" :> 1)
StressMoodOnly == ("stress_level" :> 4) @@ ("mood_score" :> 6)
SleepOnly == ("sleep_duration" :> 6)

RecordValues ==
    {PhysicalExample, PhysicalOutOfDomain, MentalExample, MentalOutOfDomain,
     MentalWorst, StressMoodOnly, SleepOnly}

RecordSet == [day : Days, vals : RecordValues]

\* listPhysicalRecords / listMentalRecords (userId, since): the window's records
InWindow(r) == r.day <= Today /\ Today - r.day < WindowDays

WindowRecords(store) == {r \in store : InWindow(r)}

----------------------------------------------------------------------------
(* 4.2 Aggregator *)

Weight(m) ==
    CASE m = "heart_rate" -> 15
      [] m = "blood_pressure" -> 15
      [] m = "steps" -> 10
      [] m = "sleep" -> 20
      [] m = "stress" -> 15
      [] m = "mood" -> 15
      [] m = "anxiety" -> 5
      [] m = "energy" -> 5

Contributors(rs, m) == {r \in rs : Contributes(r, m)}

\* the metrics with at least one contributing record
Present(rs) == {m \in Metrics : Contributors(rs, m) # {}}

\* arithmetic mean of the sub-scores of the records that contain the metric
MeanSubScore(rs, m) ==
    LET C == Contributors(rs, m)
    IN SumOver(C, [r \in C |-> SubScore(r, m)]) \div Cardinality(C)

\* a composite that divides by the fixed total weight of all metrics
CompositeFixedDenominator(rs) ==
    LET P == Present(rs)
    IN SumOver(P, [m \in P |-> Weight(m) * MeanSubScore(rs, m)])
         \div SumOver(Metrics, [m \in Metrics |-> Weight(m)])

\* weighted mean of the available sub-scores; the weights of the metrics
\* without data are redistributed (the denominator is the available weight)
Composite(rs) ==
    LET P == Present(rs)
    IN SumOver(P, [m \in P |-> Weight(m) * MeanSubScore(rs, m)])
         \div SumOver(P, [m \in P |-> Weight(m)])

\* display fields of `metrics` and the record field each averages
MetricNames ==
    {"avg_heart_rate", "avg_steps", "avg_sleep_duration", "avg_stress",
     "avg_mood"}

FieldOf(name) ==
    CASE name = "avg_heart_rate" -> "heart_rate"
      [] name = "avg_steps" -> "steps"
      [] name = "avg_sleep_duration" -> "sleep_duration"
      [] name = "avg_stress" -> "stress_level"
      [] name = "avg_mood" -> "mood_score"

Holders(rs, f) == {r \in rs : f \in DOMAIN r.vals}

\* plain average of the raw values, in 1/Scale units
RawAverage(rs, f) ==
    LET H == Holders(rs, f)
    IN (SumOver(H, [r \in H |-> RawValue(r, f)]) * Scale) \div Cardinality(H)

\* the metrics map: a field is present only when data contributed to it
MetricsMap(rs) ==
    LET names == {n \in MetricNames : Holders(rs, FieldOf(n)) # {}}
    IN [n \in names |-> RawAverage(rs, FieldOf(n))]

----------------------------------------------------------------------------
(* 4.3 Classifier *)

Statuses == {"Excellent", "Good", "Moderate", "Fair", "Critical"}

classify(s) ==
    IF s >= 85 * Scale THEN "Excellent"
    ELSE IF s >= 70 * Scale THEN "Good"
    ELSE IF s >= 50 * Scale THEN "Moderate"
    ELSE IF s >= 30 * Scale THEN "Fair"
    ELSE "Critical"

----------------------------------------------------------------------------
(* 4.4 Insight / Recommendation Generator *)

MaxListed == 5              \* at most 5 insights and 5 recommendations
LowSubScore == 40           \* a rule triggers below this average sub-score

\* the rule table in its fixed priority order: one rule per metric
RuleOrder ==
    <<"stress", "sleep", "mood", "steps", "heart_rate", "blood_pressure",
      "anxiety", "energy">>

Triggered(rs, m) ==
    /\ m \in Present(rs)
    /\ MeanSubScore(rs, m) < LowSubScore * Scale

TriggeredRules(rs) ==
    LET hit == SelectSeq(RuleOrder, LAMBDA m : Triggered(rs, m))
    IN SubSeq(hit, 1, Min(Len(hit), MaxListed))

Insights(rs) ==
    LET t == TriggeredRules(rs)
    IN [i \in 1..Len(t) |-> [insight |-> t[i]]]

Recommendations(rs) ==
    LET t == TriggeredRules(rs)
    IN [i \in 1..Len(t) |-> [recommend |-> t[i]]]

----------------------------------------------------------------------------
(* 4.5 Trend Builder *)

SeriesNames == {"sleep_trend", "stress_trend", "activity_trend", "mood_trend"}

SeriesField(s) ==
    CASE s = "sleep_trend" -> "sleep_duration"
      [] s = "stress_trend" -> "stress_level"
      [] s = "activity_trend" -> "steps"
      [] s = "mood_trend" -> "mood_score"

\* the day's representative value: the mean of the same-day records
DayValue(rs, f, d) ==
    RawAverage({r \in rs : r.day = d}, f)

RECURSIVE TrendFrom(_, _, _)
\* the points of field f from day d on, in ascending date order; a day
\* without data produces no point
TrendFrom(rs, f, d) ==
    IF d > Today THEN <<>>
    ELSE IF Holders({r \in rs : r.day = d}, f) = {}
         THEN TrendFrom(rs, f, d + 1)
         ELSE <<[date |-> d, value |-> DayValue(rs, f, d)]>>
                \o TrendFrom(rs, f, d + 1)

Trend(rs, s) == TrendFrom(rs, SeriesField(s), 0)

ChartData(rs) == [s \in SeriesNames |-> Trend(rs, s)]

----------------------------------------------------------------------------
(* 6 computeSummary(userId, windowDays) -> WellnessSummary | NoDataResult *)

NoDataResult == [kind |-> "nodata"]

computeSummary(store) ==
    LET rs == WindowRecords(store)
    IN IF rs = {} THEN NoDataResult
       ELSE LET score == Clamp(Composite(rs), 0, Full)
            IN [kind |-> "summary",
                wellness_score |-> score,
                status |-> classify(score),
                insights |-> Insights(rs),
                recommendations |-> Recommendations(rs),
                chart_data |-> ChartData(rs),
                metrics |-> MetricsMap(rs)]

----------------------------------------------------------------------------
(* WellnessCard.tsx *)

\* JavaScript truthiness of a number | null | undefined
Truthy(v) == v # Null /\ v.val # 0

\* Math.round of a non-negative fixed-point number, as an integer
Round(x) == (x + (Scale \div 2)) \div Scale

\* Number.toFixed(1) of a non-negative fixed-point number, in tenths
ToFixed1(x) == (x * 10 + (Scale \div 2)) \div Scale

DefaultColor == "#6b7280"

\* getStatusColor without its "Critical" line
getStatusColorNoCritical(s) ==
    IF s = "" THEN DefaultColor
    ELSE IF s = "Excellent" THEN "#10b981"
    ELSE IF s = "Good" THEN "#3b82f6"
    ELSE IF s = "Moderate" THEN "#f59e0b"
    ELSE IF s = "Fair" THEN "#ef4444"
    ELSE DefaultColor

getStatusColor(s) ==
    IF s = "" THEN DefaultColor
    ELSE IF s = "Excellent" THEN "#10b981"
    ELSE IF s = "Good" THEN "#3b82f6"
    ELSE IF s = "Moderate" THEN "#f59e0b"
    ELSE IF s = "Fair" THEN "#ef4444"
    ELSE IF s = "Critical" THEN "#dc2626"
    ELSE DefaultColor

DefaultBgColor == "#f3f4f6"

getStatusBgColor(s) ==
    IF s = "" THEN DefaultBgColor
    ELSE IF s = "Excellent" THEN "#d1fae5"
    ELSE IF s = "Good" THEN "#dbeafe"
    ELSE IF s = "Moderate" THEN "#fef3c7"
    ELSE IF s = "Fair" THEN "#fee2e2"
    ELSE IF s = "Critical" THEN "#fee2e2"
    ELSE DefaultBgColor

\* metrics?.[name]: the field's value, Null when the field is absent or null
MetricField(metrics, name) ==
    IF metrics = Null THEN Null
    ELSE IF name \in DOMAIN metrics.val THEN Just(metrics.val[name])
    ELSE Null

NotAvailable == [text |-> "N/A"]

\* `${Math.round(v)} bpm`, `${v.toFixed(1)} hrs`, ...
FormatMetric(name, v) ==
    CASE name = "avg_heart_rate" ->
            [text |-> "number", value |-> Round(v), unit |-> " bpm"]
      [] name = "avg_steps" ->
            [text |-> "number", value |-> Round(v), unit |-> ""]
      [] name = "avg_sleep_duration" ->
            [text |-> "number", value |-> ToFixed1(v), unit |-> " hrs"]
      [] name = "avg_stress" ->
            [text |-> "number", value |-> Round(v), unit |-> "/10"]
      [] name = "avg_mood" ->
            [text |-> "number", value |-> Round(v), unit |-> "/10"]

\* a cell that tests the value's truthiness instead of `!= null`
MetricTextTruthy(metrics, name) ==
    LET f == MetricField(metrics, name)
    IN IF Truthy(f) THEN FormatMetric(name, f.val) ELSE NotAvailable

\* a cell of the metrics grid: the formatted number, or "N/A"
MetricText(metrics, name) ==
    LET f == MetricField(metrics, name)
    IN IF f # Null THEN FormatMetric(name, f.val) ELSE NotAvailable

\* list?.length : Null for a null list
LengthOf(list) == IF list = Null THEN Null ELSE Just(Len(list.val))

\* {(insights?.length || recommendations?.length) && (<div>...</div>)}
InsightsBlock(insights, recommendations) ==
    LET a == LengthOf(insights)
        b == LengthOf(recommendations)
        either == IF Truthy(a) THEN a ELSE b
    IN IF Truthy(either)
       THEN [shows |-> "block",
             insights |-> insights # Null /\ Len(insights.val) > 0,
             recommendations |->
                 recommendations # Null /\ Len(recommendations.val) > 0]
       ELSE IF either = Null THEN [shows |-> "nothing"]
       ELSE [shows |-> "0"]

\* the "No Data Yet" condition: !metrics || no keys || !score
CardIsEmpty(score, metrics) ==
    \/ metrics = Null
    \/ DOMAIN metrics.val = {}
    \/ ~Truthy(score)

\* what the card renders for its props
WellnessCard(score, status, metrics, cardLoading, insights, recommendations) ==
    LET safeScore == IF score = Null THEN 0 ELSE score.val
        safeStatus == IF status = Null THEN "Unknown" ELSE status.val
    IN IF cardLoading THEN [state |-> "loading"]
       ELSE IF CardIsEmpty(score, metrics) THEN [state |-> "No Data Yet"]
       ELSE [state |-> "card",
             score |-> Round(Clamp(safeScore, 0, Full)),
             status |-> safeStatus,
             color |-> getStatusColor(safeStatus),
             bgColor |-> getStatusBgColor(safeStatus),
             metrics |-> [n \in MetricNames |-> MetricText(metrics, n)],
             insights |-> InsightsBlock(insights, recommendations)]

----------------------------------------------------------------------------
(* Dashboard.tsx: rendering of a loaded summary *)

\* healthSummary?.field ?? null
FieldOrNull(hs, field) ==
    IF field \in DOMAIN hs THEN Just(hs[field]) ELSE Null

\* <WellnessCard ... /> as the Dashboard instantiates it
DashboardCard(hs, cardLoading) ==
    WellnessCard(FieldOrNull(hs, "wellness_score"), FieldOrNull(hs, "status"),
                 FieldOrNull(hs, "metrics"), cardLoading,
                 FieldOrNull(hs, "insights"),
                 FieldOrNull(hs, "recommendations"))

\* a chartsGrid that renders every chart card unconditionally
ChartShownAlways(hs, s) == Len(hs.chart_data[s]) >= 0

\* chartsGrid: a series gets a chart card only when it has points
ChartShown(hs, s) == Len(hs.chart_data[s]) > 0

ChartsShown(hs) == {s \in SeriesNames : ChartShown(hs, s)}

----------------------------------------------------------------------------
(* The engine over the Record Store *)

\* the Dashboard as constructed: useState initial values, a logged-in user
DashboardInit ==
    /\ userId = Just("42")
    /\ mounted = FALSE
    /\ healthSummary = Null
    /\ loading = TRUE
    /\ error = Null
    /\ showPhysicalForm = FALSE
    /\ showMentalForm = FALSE
    /\ refreshTrigger = 0
    /\ fetches = {}
    /\ lastOutcome = "none"
    /\ answered = {}

PureIdle == pureIn = None /\ pureOut = None

\* the router shows `path`; SignIn and OAuthCallback hold their useState
\* initial values and have no request in flight
NavIdle(path) ==
    /\ location = path
    /\ isLogin = FALSE
    /\ signInError = ""
    /\ signInMessage = ""
    /\ authPending = {}
    /\ attempts = 0
    /\ oauthLoading = TRUE
    /\ oauthError = Null
    /\ oauthPending = {}

\* no form is mounted
FormIdle ==
    /\ formKind = "none"
    /\ form = <<>>
    /\ isLoading = FALSE
    /\ formError = Null
    /\ success = FALSE
    /\ saving = Null
    /\ timers = 0
    /\ formUserId = Null

Init ==
    /\ records = {}
    /\ summary = None
    /\ PureIdle
    /\ DashboardInit
    /\ FormIdle
    /\ NavIdle("/dashboard")

\* a logging action creates a record; records are never updated
LogRecord ==
    /\ Cardinality(records) < MaxRecords
    /\ \E r \in RecordSet \ records : records' = records \cup {r}
    /\ summary' = None
    /\ UNCHANGED <<pureVars, navVars, dashVars, formVars>>

\* a request: the summary is recomputed from scratch from the stored records
ComputeSummary ==
    /\ summary = None
    /\ summary' = computeSummary(records)
    /\ UNCHANGED <<records, pureVars, navVars, dashVars, formVars>>

Next == LogRecord \/ ComputeSummary

Spec == Init /\ [][Next]_vars

----------------------------------------------------------------------------
(* The pure functions of the engine, applied to every input of a range *)

MaxBpm == 200           \* heart rates 0..MaxBpm
PressureSpan == 45      \* pressures within PressureSpan of the ideal
InputSlack == 3         \* how far inputs leave their valid domain
StepsStride == 50       \* step counts are multiples of StepsStride

ScaleKinds == {"stress", "anxiety", "mood", "energy"}

\* Normalizer: the sub-score of one raw value of a kind (y: the diastolic
\* value of a blood pressure, 0 for the other kinds)
Normalize(kind, x, y) ==
    CASE kind = "heart_rate" -> HeartRateScore(x)
      [] kind = "blood_pressure" -> PressureScore(x, y)
      [] kind = "steps" -> StepsScore(x)
      [] kind = "sleep" -> SleepScore(x)
      [] kind \in {"stress", "anxiety"} -> InverseScore(x)
      [] kind \in {"mood", "energy"} -> DirectScore(x)

NormalizerInputs ==
    [fn : {"heart_rate"}, x : 0..MaxBpm, y : {0}]
    \cup [fn : {"blood_pressure"},
          x : (IdealSys - PressureSpan)..(IdealSys + PressureSpan),
          y : (IdealDia - PressureSpan)..(IdealDia + PressureSpan)]
    \cup [fn : {"steps"},
          x : {k * StepsStride :
                 k \in (-InputSlack)..((StepsTarget \div StepsStride)
                                          + InputSlack)},
          y : {0}]
    \cup [fn : {"sleep"}, x : (-InputSlack)..(24 + InputSlack), y : {0}]
    \cup [fn : ScaleKinds,
          x : (ScaleLow - InputSlack)..(ScaleHigh + InputSlack), y : {0}]

ClassifierInputs == [fn : {"classify"}, x : 0..Full, y : {0}]

InitPure ==
    /\ records = {}
    /\ summary = None
    /\ pureIn \in [kind : {"call"}, arg : NormalizerInputs \cup ClassifierInputs]
    /\ pureOut = None
    /\ DashboardInit
    /\ FormIdle
    /\ NavIdle("/dashboard")

ApplyNormalize ==
    /\ pureOut = None
    /\ pureIn.arg.fn \in Metrics
    /\ pureOut' = [kind |-> "subscore",
                   value |-> Normalize(pureIn.arg.fn, pureIn.arg.x,
                                       pureIn.arg.y)]
    /\ UNCHANGED <<engineVars, pureIn, navVars, dashVars, formVars>>

ApplyClassify ==
    /\ pureOut = None
    /\ pureIn.arg.fn = "classify"
    /\ pureOut' = [kind |-> "status", value |-> classify(pureIn.arg.x)]
    /\ UNCHANGED <<engineVars, pureIn, navVars, dashVars, formVars>>

NextPure == ApplyNormalize \/ ApplyClassify

SpecPure == InitPure /\ [][NextPure]_vars

----------------------------------------------------------------------------
(* Dashboard.tsx: state, effect, fetch callbacks, buttons *)

MaxRefresh == 2         \* refreshTrigger is at most MaxRefresh

NotLoggedIn == "User not logged in"
UnableToLoad ==
    "Unable to load health summary. Please ensure you have health data logged."

\* !userId : null and the empty string are falsy
NoUser(u) == u = Null \/ u.val = ""

\* an effect that starts its fetch without setError(null)
FetchEffectKeepsError(t) ==
    IF NoUser(userId)
    THEN /\ error' = Just(NotLoggedIn)
         /\ loading' = FALSE
         /\ UNCHANGED <<fetches, lastOutcome, answered>>
    ELSE /\ loading' = TRUE
         /\ error' = error
         /\ fetches' = fetches \cup {t}
         /\ lastOutcome' = "pending"
         /\ UNCHANGED answered

\* the useEffect body of one run for refreshTrigger value t
FetchEffect(t) ==
    IF NoUser(userId)
    THEN /\ error' = Just(NotLoggedIn)
         /\ loading' = FALSE
         /\ UNCHANGED <<fetches, lastOutcome, answered>>
    ELSE /\ loading' = TRUE
         /\ error' = Null
         /\ fetches' = fetches \cup {t}
         /\ lastOutcome' = "pending"
         /\ UNCHANGED answered

\* the effect of the first render
Mount ==
    /\ ~mounted
    /\ mounted' = TRUE
    /\ FetchEffect(refreshTrigger)
    /\ UNCHANGED <<formVars, engineVars, pureVars, navVars, userId,
                   healthSummary, showPhysicalForm, showMentalForm,
                   refreshTrigger>>

\* setRefreshTrigger(prev => prev + 1) and the effect run it causes
Refresh ==
    /\ refreshTrigger < MaxRefresh
    /\ refreshTrigger' = refreshTrigger + 1
    /\ FetchEffect(refreshTrigger + 1)
    /\ UNCHANGED <<formVars, engineVars, pureVars, navVars, userId, mounted,
                   healthSummary, showPhysicalForm, showMentalForm>>

\* the Refresh button, disabled while loading
RefreshClick == mounted /\ ~loading /\ Refresh

\* handleFormSubmit, the onSubmit of the form that is shown
HandleFormSubmit ==
    mounted /\ (showPhysicalForm \/ showMentalForm) /\ Refresh

TogglePhysicalForm ==
    /\ mounted
    /\ showPhysicalForm' = ~showPhysicalForm
    /\ showMentalForm' = FALSE
    /\ UNCHANGED <<formVars, engineVars, pureVars, navVars, userId, mounted,
                   healthSummary, loading, error, refreshTrigger, fetches,
                   lastOutcome, answered>>

ToggleMentalForm ==
    /\ mounted
    /\ showMentalForm' = ~showMentalForm
    /\ showPhysicalForm' = FALSE
    /\ UNCHANGED <<formVars, engineVars, pureVars, navVars, userId, mounted,
                   healthSummary, loading, error, refreshTrigger, fetches,
                   lastOutcome, answered>>

\* the HTTP layer answers 200 with the summary; it has no body for the no-data
\* outcome and answers it with an error status
HttpOk(result) == result.kind = "summary"

\* .then(res => res.json()).then(data => ...) of a 200 response
FetchResolved ==
    /\ \E t \in fetches :
          LET data == computeSummary(records)
          IN
          /\ HttpOk(data)
          /\ fetches' = fetches \ {t}
          /\ healthSummary' = Just(data)
          /\ loading' = FALSE
          /\ lastOutcome' = "summary"
          /\ answered' = answered \cup {<<t, "summary">>}
    /\ UNCHANGED <<formVars, engineVars, pureVars, navVars, userId, mounted,
                   error, showPhysicalForm, showMentalForm, refreshTrigger>>

\* .catch(err => ...) : !res.ok, a rejected fetch or a rejected res.json()
FetchCatch(t, outcome) ==
    /\ fetches' = fetches \ {t}
    /\ error' = Just(UnableToLoad)
    /\ loading' = FALSE
    /\ lastOutcome' = outcome
    /\ answered' = answered \cup {<<t, outcome>>}
    /\ UNCHANGED <<formVars, engineVars, pureVars, navVars, userId, mounted,
                   healthSummary, showPhysicalForm, showMentalForm,
                   refreshTrigger>>

\* the engine reports no data for the window
FetchNoData ==
    \E t \in fetches :
        /\ ~HttpOk(computeSummary(records))
        /\ FetchCatch(t, "nodata")

\* the request fails: the backend is down or answers 5xx
FetchFailed == \E t \in fetches : FetchCatch(t, "failed")

\* the records the user logs while the Dashboard is open
DashboardRecords ==
    {[day |-> Today, vals |-> PhysicalExample],
     [day |-> Today, vals |-> MentalWorst],
     [day |-> Today, vals |-> SleepOnly]}

\* a record reaches the Record Store (a form was saved, Google Fit synced)
RecordStored ==
    /\ Cardinality(records) < MaxRecords
    /\ \E r \in DashboardRecords \ records : records' = records \cup {r}
    /\ UNCHANGED <<summary, pureVars, navVars, dashVars, formVars>>

\* localStorage is cleared outside the application
StorageCleared ==
    /\ userId # Null
    /\ userId' = Null
    /\ UNCHANGED <<formVars, engineVars, pureVars, navVars, mounted,
                   healthSummary, loading, error, showPhysicalForm,
                   showMentalForm, refreshTrigger, fetches, lastOutcome,
                   answered>>

Hidden == [shown |-> FALSE]

\* what the Dashboard renders below the action bar
DashboardView ==
    [spinner |-> loading,
     refreshDisabled |-> loading,
     errorBox |->
        IF error # Null /\ error.val # ""
        THEN [shown |-> TRUE, title |-> "No Data Available Yet",
              message |-> error.val]
        ELSE Hidden,
     summarySection |->
        IF ~loading /\ healthSummary # Null /\ error = Null
        THEN [shown |-> TRUE,
              card |-> DashboardCard(healthSummary.val, loading),
              charts |-> ChartsShown(healthSummary.val)]
        ELSE Hidden]

InitDash ==
    /\ records = {}
    /\ summary = None
    /\ PureIdle
    /\ DashboardInit
    /\ FormIdle
    /\ NavIdle("/dashboard")

NextDash ==
    \/ Mount
    \/ RefreshClick
    \/ HandleFormSubmit
    \/ TogglePhysicalForm
    \/ ToggleMentalForm
    \/ FetchResolved
    \/ FetchNoData
    \/ FetchFailed
    \/ RecordStored
    \/ StorageCleared

SpecDash == InitDash /\ [][NextDash]_vars

----------------------------------------------------------------------------
(* PhysicalHealthForm.tsx, MentalHealthForm.tsx, services/api.ts *)

\* the keys of each form's state, in their order
PhysicalKeys ==
    <<"heart_rate", "bp_sys", "bp_dia", "steps", "calories_burned",
      "temperature">>
MentalKeys ==
    <<"mood_score", "stress_level", "anxiety_level", "energy_level",
      "sleep_quality">>

\* const requiredFields = [...] of MentalHealthForm
requiredFields ==
    <<"mood_score", "stress_level", "anxiety_level", "energy_level">>

Range(q) == {q[i] : i \in 1..Len(q)}

\* what a user types into an <input type="number"> (min / max of the mental
\* inputs are hints the browser does not enforce on typed text)
Typed(key) ==
    CASE key = "heart_rate" -> {"72"}
      [] key = "bp_sys" -> {"118"}
      [] key = "bp_dia" -> {"78"}
      [] key = "steps" -> {"9000", "-500"}
      [] key = "calories_burned" -> {"2200"}
      [] key = "temperature" -> {"37"}
      [] key = "mood_score" -> {"8", "12"}
      [] key = "stress_level" -> {"3"}
      [] key = "anxiety_level" -> {"2"}
      [] key = "energy_level" -> {"7"}
      [] key = "sleep_quality" -> {"6"}

\* Number(string)
Number(str) ==
    CASE str = "" -> 0
      [] str = "72" -> 72
      [] str = "118" -> 118
      [] str = "78" -> 78
      [] str = "9000" -> 9000
      [] str = "-500" -> -500
      [] str = "2200" -> 2200
      [] str = "37" -> 37
      [] str = "8" -> 8
      [] str = "12" -> 12
      [] str = "3" -> 3
      [] str = "2" -> 2
      [] str = "7" -> 7
      [] str = "6" -> 6
      [] str = "42" -> 42

\* key.replace(/_/g, " ")
Spaced(key) ==
    CASE key = "heart_rate" -> "heart rate"
      [] key = "bp_sys" -> "bp sys"
      [] key = "bp_dia" -> "bp dia"
      [] key = "steps" -> "steps"
      [] key = "calories_burned" -> "calories burned"
      [] key = "temperature" -> "temperature"
      [] key = "mood_score" -> "mood score"
      [] key = "stress_level" -> "stress level"
      [] key = "anxiety_level" -> "anxiety level"
      [] key = "energy_level" -> "energy level"
      [] key = "sleep_quality" -> "sleep quality"

\* the useState initial value of a form: every key ""
EmptyForm(keys) == [k \in Range(keys) |-> ""]

\* the loop over `keys` that pushes the spaced name of every empty field
EmptyFields(f, keys) ==
    LET empty == SelectSeq(keys, LAMBDA k : f[k] = "")
    IN [i \in 1..Len(empty) |-> Spaced(empty[i])]

\* `Please fill: ${emptyFields.join(", ")}`
PleaseFill(names) == [text |-> "Please fill: ", list |-> names]
Message(str) == [text |-> str, list |-> <<>>]

\* the body posted by PhysicalHealthForm
PhysicalBody(u, f) ==
    [user_id |-> Number(u),
     heart_rate |-> Number(f["heart_rate"]),
     bp_sys |-> Number(f["bp_sys"]),
     bp_dia |-> Number(f["bp_dia"]),
     steps |-> Number(f["steps"]),
     calories_burned |-> Number(f["calories_burned"]),
     temperature |-> Number(f["temperature"])]

\* the body posted by MentalHealthForm
MentalBody(u, f) ==
    [user_id |-> Number(u),
     mood_score |-> Number(f["mood_score"]),
     stress_level |-> Number(f["stress_level"]),
     anxiety_level |-> Number(f["anxiety_level"]),
     energy_level |-> Number(f["energy_level"])]

MaxSaves == 2       \* POST requests a form sends

\* handleChange: one field is set, the error is cleared
HandleChange ==
    /\ formKind # "none"
    /\ \E k \in DOMAIN form : \E v \in Typed(k) \cup {""} :
          /\ form[k] # v
          /\ form' = [form EXCEPT ![k] = v]
    /\ formError' = Null
    /\ formUserId' = userId                 \* the component renders again
    /\ UNCHANGED <<engineVars, pureVars, navVars, dashVars, formKind,
                   isLoading, success, saving, timers>>

\* a handleSubmit without its `if (!userId)` block
SubmitFormNoUserCheck(keys, body) ==
    /\ ~isLoading
    /\ formUserId' = userId
    /\ IF Len(EmptyFields(form, keys)) > 0
       THEN /\ formError' = Just(PleaseFill(EmptyFields(form, keys)))
            /\ UNCHANGED <<isLoading, saving>>
       ELSE /\ refreshTrigger < MaxSaves
            /\ isLoading' = TRUE
            /\ formError' = Null
            /\ saving' = Just(IF NoUser(formUserId) THEN [user_id |-> 0]
                              ELSE body)
    /\ UNCHANGED <<engineVars, pureVars, navVars, dashVars, formKind, form,
                   success, timers>>

\* handleSubmit up to its await, for the form with the given keys to check;
\* its userId is the constant of the render the handler was created in
SubmitForm(keys, body) ==
    /\ ~isLoading                           \* the button is disabled
    /\ formUserId' = userId                 \* the render after the handler
    /\ IF NoUser(formUserId)
       THEN /\ formError' = Just(Message(NotLoggedIn))
            /\ UNCHANGED <<isLoading, saving>>
       ELSE IF Len(EmptyFields(form, keys)) > 0
       THEN /\ formError' = Just(PleaseFill(EmptyFields(form, keys)))
            /\ UNCHANGED <<isLoading, saving>>
       ELSE /\ refreshTrigger < MaxSaves
            /\ isLoading' = TRUE
            /\ formError' = Null
            /\ saving' = Just(body)
    /\ UNCHANGED <<engineVars, pureVars, navVars, dashVars, formKind, form,
                   success, timers>>

\* a handleSubmit whose loop misses the last key, temperature
PhysicalSubmitFiveKeys ==
    /\ formKind = "physical"
    /\ SubmitForm(SubSeq(PhysicalKeys, 1, 5), PhysicalBody(formUserId.val, form))

\* a handleSubmit that refuses negative step counts as if they were empty
PhysicalSubmitRangeChecked ==
    /\ formKind = "physical"
    /\ IF form["steps"] = "-500"
       THEN /\ ~isLoading
            /\ formUserId' = userId
            /\ formError' = Just(PleaseFill(<<Spaced("steps")>>))
            /\ UNCHANGED <<engineVars, pureVars, navVars, dashVars, formKind,
                           form, isLoading, success, saving, timers>>
       ELSE SubmitForm(PhysicalKeys, PhysicalBody(formUserId.val, form))

\* PhysicalHealthForm.handleSubmit: every key of the form must be filled
PhysicalHandleSubmit ==
    /\ formKind = "physical"
    /\ SubmitForm(PhysicalKeys, PhysicalBody(formUserId.val, form))

\* a handleSubmit that loops over every key of the form, sleep_quality too
MentalSubmitAllKeys ==
    /\ formKind = "mental"
    /\ SubmitForm(MentalKeys, MentalBody(formUserId.val, form))

\* MentalHealthForm.handleSubmit: the required fields must be filled
MentalHandleSubmit ==
    /\ formKind = "mental"
    /\ SubmitForm(requiredFields, MentalBody(formUserId.val, form))

\* the record the backend stores for a posted body
StoredRecord(body) ==
    [day |-> Today,
     vals |-> [k \in DOMAIN body \ {"user_id"} |-> body[k]]]

\* a success branch that never calls onSubmit
SaveSucceededNoCallback ==
    /\ saving # Null
    /\ records' = records \cup {StoredRecord(saving.val)}
    /\ summary' = None
    /\ success' = TRUE
    /\ form' = [k \in DOMAIN form |-> ""]
    /\ timers' = timers + 1
    /\ isLoading' = FALSE
    /\ saving' = Null
    /\ formUserId' = userId                 \* the component renders again
    /\ UNCHANGED <<pureVars, navVars, dashVars, formKind, formError>>

\* the POST is answered 2xx: the rest of the try block, then finally; onSubmit
\* is the Dashboard's handleFormSubmit, and the new refreshTrigger makes the
\* Dashboard's effect run again
SaveSucceeded ==
    /\ saving # Null
    /\ records' = records \cup {StoredRecord(saving.val)}
    /\ summary' = None
    /\ success' = TRUE
    /\ form' = [k \in DOMAIN form |-> ""]
    /\ timers' = timers + 1
    /\ refreshTrigger' = refreshTrigger + 1         \* onSubmit()
    /\ FetchEffect(refreshTrigger + 1)              \* the effect re-runs
    /\ isLoading' = FALSE
    /\ saving' = Null
    /\ formUserId' = userId                 \* the component renders again
    /\ UNCHANGED <<pureVars, navVars, userId, mounted, healthSummary,
                   showPhysicalForm, showMentalForm, formKind, formError>>

\* throw new Error(result.detail || "Failed to save ... data")
DefaultFailure ==
    IF formKind = "physical" THEN "Failed to save physical health data"
    ELSE "Failed to save mental health data"

FailureMessages == {"Failed to fetch", "Invalid data", DefaultFailure}

\* a catch block that also empties the form
SaveFailedResetsForm ==
    /\ saving # Null
    /\ \E m \in FailureMessages : formError' = Just(Message(m))
    /\ form' = [k \in DOMAIN form |-> ""]
    /\ isLoading' = FALSE
    /\ saving' = Null
    /\ formUserId' = userId                 \* the component renders again
    /\ UNCHANGED <<engineVars, pureVars, navVars, dashVars, formKind, success,
                   timers>>

\* the POST fails (network error or a non-2xx answer): catch, then finally
SaveFailed ==
    /\ saving # Null
    /\ \E m \in FailureMessages : formError' = Just(Message(m))
    /\ isLoading' = FALSE
    /\ saving' = Null
    /\ formUserId' = userId                 \* the component renders again
    /\ UNCHANGED <<engineVars, pureVars, navVars, dashVars, formKind, form,
                   success, timers>>

\* a 3 second timer fires: setSuccess(false), and a render if success changes
SuccessTimeout ==
    /\ timers > 0
    /\ timers' = timers - 1
    /\ success' = FALSE
    /\ formUserId' = IF success THEN userId ELSE formUserId
    /\ UNCHANGED <<engineVars, pureVars, navVars, dashVars, formKind, form,
                   isLoading, formError, saving>>

\* a form component as mounted, with or without a stored user_id
InitForms ==
    /\ records = {}
    /\ summary = None
    /\ PureIdle
    /\ userId \in {Null, Just("42")}
    /\ mounted = TRUE
    /\ healthSummary = Null
    /\ loading = FALSE
    /\ error = Null
    /\ formKind \in {"physical", "mental"}
    /\ showPhysicalForm = (formKind = "physical")
    /\ showMentalForm = (formKind = "mental")
    /\ refreshTrigger = 0
    /\ fetches = {}
    /\ lastOutcome = "none"
    /\ form = IF formKind = "physical" THEN EmptyForm(PhysicalKeys)
              ELSE EmptyForm(MentalKeys)
    /\ isLoading = FALSE
    /\ formError = Null
    /\ success = FALSE
    /\ saving = Null
    /\ timers = 0
    /\ formUserId = userId
    /\ answered = {}
    /\ NavIdle("/dashboard")

NextForms ==
    \/ HandleChange
    \/ PhysicalHandleSubmit
    \/ MentalHandleSubmit
    \/ SaveSucceeded
    \/ SaveFailed
    \/ SuccessTimeout
    \/ ComputeSummary

SpecForms == InitForms /\ [][NextForms]_vars

\* the forms and the Dashboard's effect when localStorage is cleared outside
\* the application (another tab, the browser's developer tools)
NextStorage ==
    \/ HandleChange
    \/ PhysicalHandleSubmit
    \/ MentalHandleSubmit
    \/ SaveSucceeded
    \/ SaveFailed
    \/ SuccessTimeout
    \/ RefreshClick
    \/ StorageCleared

SpecStorage == InitForms /\ [][NextStorage]_vars

----------------------------------------------------------------------------
(* App.tsx, ProtectedRoute.tsx, Home.tsx, SignIn.tsx, OAuthCallback.tsx,   *)
(* services/api.ts (signupUser, loginUser)                                 *)

MaxAttempts == 2        \* signup / login requests sent

\* the paths of <Routes>
Paths == {"/", "/signin", "/oauth/callback", "/dashboard"}

\* result.user_id.toString()
toString(n) ==
    CASE n = 0 -> "0"
      [] n = 7 -> "7"
      [] n = 42 -> "42"

\* a route guard that renders its element for every visitor
ProtectedRouteOpen(u) == "/dashboard"

\* ProtectedRoute around <Dashboard />: the path that ends up rendered
ProtectedRoute(u) == IF NoUser(u) THEN "/signin" ELSE "/dashboard"

\* the route rendered for a navigation to `to` when localStorage holds u
Dest(to, u) == IF to = "/dashboard" THEN ProtectedRoute(u) ELSE to

\* the component of `path` is mounted anew by a move from `from` to `dest`
Remounts(path, from, dest, reload) == dest = path /\ (reload \/ from # path)

\* requests whose component was unmounted: their continuations still run
Stale(S) == {[p EXCEPT !.live = FALSE] : p \in S}

\* the signup / login requests after a move; a page load drops them all
AuthAfter(S, from, dest, reload) ==
    IF reload THEN {}
    ELSE IF from = "/signin" /\ dest # "/signin" THEN Stale(S)
    ELSE S

\* the Google Fit requests after a move
OAuthAfter(S, from, dest, reload) ==
    IF reload THEN {}
    ELSE IF from = "/oauth/callback" /\ dest # "/oauth/callback" /\ S # {}
    THEN {"stale"}
    ELSE S

\* the requests of earlier instances when OAuthCallback is mounted anew
Older(S, reload) == IF reload \/ S = {} THEN {} ELSE {"stale"}

\* what the query string of /oauth/callback holds
CallbackQueries == {"error", "nocode", "code"}

NoCode == "No authorization code received"
NotConnected == "Failed to establish connection with Google Fit"

\* handleOAuthCallback up to its first await, for the query q; S holds the
\* requests of earlier instances
OAuthEffect(q, S) ==
    CASE q = "error" ->
            /\ oauthError' = Just("OAuth error: access_denied")
            /\ oauthLoading' = FALSE
            /\ oauthPending' = S
      [] q = "nocode" ->
            /\ oauthError' = Just(NoCode)
            /\ oauthLoading' = FALSE
            /\ oauthPending' = S
      [] q = "code" ->
            /\ oauthError' = Null
            /\ oauthLoading' = TRUE
            /\ oauthPending' = S \cup {"live"}

\* the router moves to `to`: ProtectedRoute redirects, the component of the
\* old route is unmounted and its state is gone (the variables of a component
\* that is not mounted hold its initial values), the component of the new
\* route is mounted and runs its effect.  auths, oauths, err and msg are the
\* requests and the SignIn state the calling handler leaves behind.
Navigate(to, u, reload, auths, oauths, err, msg) ==
    LET dest == Dest(to, u)
    IN /\ location' = dest
       /\ authPending' = AuthAfter(auths, location, dest, reload)
       /\ IF dest = "/signin" /\ ~Remounts("/signin", location, dest, reload)
          THEN /\ isLogin' = isLogin
               /\ signInError' = err
               /\ signInMessage' = msg
          ELSE /\ isLogin' = FALSE
               /\ signInError' = ""
               /\ signInMessage' = ""
       /\ IF Remounts("/oauth/callback", location, dest, reload)
          THEN \E q \in CallbackQueries :
                  OAuthEffect(q, Older(oauths, reload))
          ELSE /\ oauthPending' = OAuthAfter(oauths, location, dest, reload)
               /\ IF dest = "/oauth/callback"
                  THEN UNCHANGED <<oauthLoading, oauthError>>
                  ELSE oauthLoading' = TRUE /\ oauthError' = Null

\* a page load: the address bar, a reload, window.location.href = ...
Visit ==
    /\ \E to \in Paths :
          Navigate(to, userId, TRUE, authPending, oauthPending, signInError,
                   signInMessage)
    /\ UNCHANGED <<engineVars, pureVars, dashVars, formVars, attempts>>

\* the browser's back / forward buttons: a move inside the running page
HistoryMove ==
    /\ \E to \in Paths \ {location} :
          Navigate(to, userId, FALSE, authPending, oauthPending, signInError,
                   signInMessage)
    /\ UNCHANGED <<engineVars, pureVars, dashVars, formVars, attempts>>

\* Home: <Link to="/signin">Get Started</Link>
GetStarted ==
    /\ location = "/"
    /\ Navigate("/signin", userId, FALSE, authPending, oauthPending,
                signInError, signInMessage)
    /\ UNCHANGED <<engineVars, pureVars, dashVars, formVars, attempts>>

\* SignIn: the button that switches between Sign Up and Log In
ToggleAuth ==
    /\ location = "/signin"
    /\ isLogin' = ~isLogin
    /\ signInError' = ""
    /\ signInMessage' = ""
    /\ UNCHANGED <<engineVars, pureVars, dashVars, formVars, location,
                   authPending, attempts, oauthLoading, oauthError,
                   oauthPending>>

NoAnswer == [kind |-> "none"]

\* handleSubmit / handleLogin up to the await: the request is sent
SendAuth(kind) ==
    /\ location = "/signin"
    /\ attempts < MaxAttempts
    /\ signInError' = ""
    /\ signInMessage' = ""
    /\ attempts' = attempts + 1
    /\ authPending' = authPending \cup
          {[id |-> attempts + 1, kind |-> kind, live |-> TRUE,
            answer |-> NoAnswer]}
    /\ UNCHANGED <<engineVars, pureVars, dashVars, formVars, location,
                   isLogin, oauthLoading, oauthError, oauthPending>>

\* SignIn.handleSubmit (the form's onSubmit while isLogin is false)
HandleSubmit == ~isLogin /\ SendAuth("signup")

\* SignIn.handleLogin (the form's onSubmit while isLogin is true)
HandleLogin == isLogin /\ SendAuth("login")

\* what the backend or the network answers to a signup / login request
AuthAnswers ==
    {[kind |-> "ok", user_id |-> Just(7), detail |-> Null],
     [kind |-> "ok", user_id |-> Just(42), detail |-> Null],
     [kind |-> "ok", user_id |-> Null, detail |-> Null],
     [kind |-> "error", user_id |-> Null, detail |-> Just("Invalid credentials")],
     [kind |-> "error", user_id |-> Null, detail |-> Null],
     [kind |-> "network", user_id |-> Null, detail |-> Null]}

\* the answer to a request arrives at the browser
AuthAnswered ==
    /\ \E p \in authPending : \E a \in AuthAnswers :
          /\ p.answer = NoAnswer
          /\ authPending' = (authPending \ {p}) \cup {[p EXCEPT !.answer = a]}
    /\ UNCHANGED <<engineVars, pureVars, dashVars, formVars, location,
                   isLogin, signInError, signInMessage, attempts,
                   oauthLoading, oauthError, oauthPending>>

\* the try block runs to its end: response.ok and result.user_id is there
Accepted(a) == a.kind = "ok" /\ a.user_id # Null

\* err.message in the catch block of handleSubmit / handleLogin
FailureText(p) ==
    CASE p.answer.kind = "network" -> "Failed to fetch"
      [] p.answer.kind = "ok" ->
            "Cannot read properties of undefined (reading 'toString')"
      [] p.answer.kind = "error" ->
            IF p.answer.detail # Null /\ p.answer.detail.val # ""
            THEN p.answer.detail.val
            ELSE IF p.kind = "signup" THEN "Signup failed" ELSE "Login failed"

SuccessText(p) ==
    IF p.kind = "signup" THEN "Signup successful" ELSE "Login successful"

\* a continuation that navigates whatever the answer was
SignInSettledAlwaysNavigates(p) ==
    /\ p \in authPending
    /\ p.answer # NoAnswer
    /\ userId' = IF Accepted(p.answer)
                 THEN Just(toString(p.answer.user_id.val)) ELSE userId
    /\ Navigate("/dashboard", userId', FALSE, authPending \ {p},
                oauthPending, signInError, signInMessage)
    /\ UNCHANGED <<engineVars, pureVars, formVars, mounted, healthSummary,
                   loading, error, showPhysicalForm, showMentalForm,
                   refreshTrigger, fetches, lastOutcome, answered, attempts>>

\* handleSubmit / handleLogin after the await, for the answer to request p:
\* the rest of the try block, or the catch block.  The state setters of an
\* unmounted SignIn do nothing.
SignInSettled(p) ==
    /\ p \in authPending
    /\ p.answer # NoAnswer
    /\ IF Accepted(p.answer)
       THEN /\ userId' = Just(toString(p.answer.user_id.val))
            /\ Navigate("/dashboard", userId', FALSE, authPending \ {p},
                        oauthPending, signInError,
                        IF p.live THEN SuccessText(p) ELSE signInMessage)
       ELSE /\ signInError' = IF p.live THEN FailureText(p) ELSE signInError
            /\ authPending' = authPending \ {p}
            /\ UNCHANGED <<userId, location, isLogin, signInMessage,
                           oauthLoading, oauthError, oauthPending>>
    /\ UNCHANGED <<engineVars, pureVars, formVars, mounted, healthSummary,
                   loading, error, showPhysicalForm, showMentalForm,
                   refreshTrigger, fetches, lastOutcome, answered, attempts>>

AuthSucceeded ==
    \E p \in authPending : Accepted(p.answer) /\ SignInSettled(p)

AuthFailed ==
    \E p \in authPending : ~Accepted(p.answer) /\ SignInSettled(p)

\* the connect request is answered 200 with a status other than "connected"
OAuthNotConnected ==
    /\ \E r \in oauthPending :
          /\ oauthPending' = oauthPending \ {r}
          /\ IF r = "live"
             THEN /\ oauthError' = Just(NotConnected)
                  /\ UNCHANGED oauthLoading     \* no setLoading(false)
             ELSE UNCHANGED <<oauthError, oauthLoading>>
    /\ UNCHANGED <<engineVars, pureVars, dashVars, formVars, location,
                   isLogin, signInError, signInMessage, authPending, attempts>>

\* the connect request is answered 200 with status "connected"
OAuthConnected ==
    /\ \E r \in oauthPending :
          Navigate(IF NoUser(userId) THEN "/signin" ELSE "/dashboard",
                   userId, FALSE, authPending, oauthPending \ {r},
                   signInError, signInMessage)
    /\ UNCHANGED <<engineVars, pureVars, dashVars, formVars, attempts>>

OAuthFailures == {"Failed to connect Google Fit", "Failed to fetch"}

\* the connect request is answered with an error status, or fetch rejects
OAuthFailed ==
    /\ \E r \in oauthPending : \E m \in OAuthFailures :
          /\ oauthPending' = oauthPending \ {r}
          /\ IF r = "live"
             THEN oauthError' = Just(m) /\ oauthLoading' = FALSE
             ELSE UNCHANGED <<oauthError, oauthLoading>>
    /\ UNCHANGED <<engineVars, pureVars, dashVars, formVars, location,
                   isLogin, signInError, signInMessage, authPending, attempts>>

\* what OAuthCallback renders
OAuthView ==
    IF oauthLoading THEN "spinner"
    ELSE IF oauthError # Null /\ oauthError.val # "" THEN "error"
    ELSE "nothing"

\* the "Back to Dashboard" button: window.location.href = "/dashboard"
BackToDashboard ==
    /\ location = "/oauth/callback"
    /\ OAuthView = "error"
    /\ Navigate("/dashboard", userId, TRUE, authPending, oauthPending,
                signInError, signInMessage)
    /\ UNCHANGED <<engineVars, pureVars, dashVars, formVars, attempts>>

\* a first visit of the application with an empty localStorage
InitAuth ==
    /\ records = {}
    /\ summary = None
    /\ PureIdle
    /\ FormIdle
    /\ userId = Null
    /\ mounted = FALSE
    /\ healthSummary = Null
    /\ loading = TRUE
    /\ error = Null
    /\ showPhysicalForm = FALSE
    /\ showMentalForm = FALSE
    /\ refreshTrigger = 0
    /\ fetches = {}
    /\ lastOutcome = "none"
    /\ answered = {}
    /\ NavIdle("/")

NextAuth ==
    \/ Visit
    \/ HistoryMove
    \/ GetStarted
    \/ ToggleAuth
    \/ HandleSubmit
    \/ HandleLogin
    \/ AuthAnswered
    \/ AuthSucceeded
    \/ AuthFailed
    \/ OAuthNotConnected
    \/ OAuthConnected
    \/ OAuthFailed
    \/ BackToDashboard

SpecAuth == InitAuth /\ [][NextAuth]_vars

----------------------------------------------------------------------------
(* Claims about the pure functions (SpecPure) *)

\* C1: for every composite score s in [0,100] the classifier returns exactly
\* one of the five statuses, with closed lower bounds (s >= 85 Excellent,
\* 70 <= s < 85 Good, 50 <= s < 70 Moderate, 30 <= s < 50 Fair, s < 30
\* Critical), and WellnessCard maps that status to a colour of its own.
ClassifierBands ==
    pureOut.kind = "status" =>
        LET s == pureIn.arg.x
            st == pureOut.value
        IN /\ st \in Statuses
           /\ (st = "Excellent") <=> (s >= 85 * Scale)
           /\ (st = "Good") <=> (70 * Scale <= s /\ s < 85 * Scale)
           /\ (st = "Moderate") <=> (50 * Scale <= s /\ s < 70 * Scale)
           /\ (st = "Fair") <=> (30 * Scale <= s /\ s < 50 * Scale)
           /\ (st = "Critical") <=> (s < 30 * Scale)
           /\ getStatusColor(st) # DefaultColor
           /\ getStatusBgColor(st) # DefaultBgColor

\* a score just below a cutoff (84.999) classified, and the lowest score
ClassifierBandsWitness ==
    /\ pureOut.kind = "status"
    /\ pureIn.arg.x = 85 * Scale - 1
    /\ pureOut.value = "Good"

\* C5: every sub-score is in [0,100]; the heart-rate sub-score is
\* non-decreasing over 40..70 bpm, at its maximum inside 60..100 bpm,
\* non-increasing over 100..160 bpm and 0 beyond the outer bound; stress and
\* anxiety map 1 to 100 and 10 to 0, mood and energy map 1 to 0 and 10 to 100.
NormalizerShape ==
    pureOut.kind = "subscore" =>
        LET fn == pureIn.arg.fn
            x == pureIn.arg.x
            v == pureOut.value
        IN /\ 0 <= v /\ v <= Full
           /\ fn = "heart_rate" =>
                /\ (40 <= x /\ x < 70) => v <= Normalize(fn, x + 1, 0)
                /\ (60 <= x /\ x <= 100) => v = Full
                /\ (100 <= x /\ x < 160) => v >= Normalize(fn, x + 1, 0)
                /\ (x <= HeartRateLow - HeartRateOuter) => v = 0
                /\ (x >= HeartRateHigh + HeartRateOuter) => v = 0
           /\ fn \in {"stress", "anxiety"} =>
                /\ x = 1 => v = Full
                /\ x = 10 => v = 0
           /\ fn \in {"mood", "energy"} =>
                /\ x = 1 => v = 0
                /\ x = 10 => v = Full

\* a heart rate below the band scored strictly between 0 and 100
NormalizerShapeWitness ==
    /\ pureOut.kind = "subscore"
    /\ pureIn.arg.fn = "heart_rate"
    /\ pureIn.arg.x = 50
    /\ 0 < pureOut.value /\ pureOut.value < Full

----------------------------------------------------------------------------
(* Claims about the engine over the Record Store (Spec) *)

Computed == summary.kind = "summary"

\* the metrics some record of the window has data for
WithData(rs) == {m \in Metrics : \E r \in rs : Contributes(r, m)}

\* q is the quotient, rounded down, of num by den
IsFloorOf(q, num, den) == q * den <= num /\ num < (q + 1) * den

\* C3: the composite is the weighted mean of the sub-scores of exactly the
\* metrics that have data, the weights renormalized over those metrics; with
\* only stress and mood data it is the weighted mean of those two; the score
\* is in [0,100].
WeightRedistribution ==
    Computed =>
        LET rs == WindowRecords(records)
            P == WithData(rs)
            num == SumOver(P, [m \in P |-> Weight(m) * MeanSubScore(rs, m)])
            den == SumOver(P, [m \in P |-> Weight(m)])
        IN /\ IsFloorOf(summary.wellness_score, num, den)
           /\ 0 <= summary.wellness_score
           /\ summary.wellness_score <= Full
           /\ P = {"stress", "mood"} =>
                IsFloorOf(summary.wellness_score,
                          Weight("stress") * MeanSubScore(rs, "stress")
                            + Weight("mood") * MeanSubScore(rs, "mood"),
                          Weight("stress") + Weight("mood"))

\* only stress and mood data in the window, and a summary computed from it
WeightRedistributionWitness ==
    /\ Computed
    /\ WithData(WindowRecords(records)) = {"stress", "mood"}
    /\ 0 < summary.wellness_score /\ summary.wellness_score < Full

\* the in-window days on which some record holds field f
DaysWith(f) ==
    {d \in Days : \E r \in WindowRecords(records) :
                     r.day = d /\ f \in DOMAIN r.vals}

\* C4: each trend series holds exactly one point per calendar day of the
\* window with a contributing record, in ascending date order, none for the
\* other days; the dashboard shows a chart exactly for the non-empty series.
TrendSparsity ==
    Computed =>
        \A s \in SeriesNames :
            LET t == summary.chart_data[s]
                D == DaysWith(SeriesField(s))
            IN /\ Len(t) = Cardinality(D)
               /\ {t[i].date : i \in 1..Len(t)} = D
               /\ \A i \in 1..Len(t) : \A j \in 1..Len(t) :
                     i < j => t[i].date < t[j].date
               /\ \A i \in 1..Len(t) :
                     LET H == {r \in WindowRecords(records) :
                                 /\ r.day = t[i].date
                                 /\ SeriesField(s) \in DOMAIN r.vals}
                     IN IsFloorOf(t[i].value,
                                  Scale * SumOver(H, [r \in H |->
                                      RawValue(r, SeriesField(s))]),
                                  Cardinality(H))
               /\ (s \in ChartsShown(summary)) <=> (D # {})

\* mental logs on 3 distinct days of the window: a mood series of 3 points,
\* and no sleep chart
TrendSparsityWitness ==
    /\ Computed
    /\ Len(summary.chart_data["mood_trend"]) = 3
    /\ Cardinality(WindowRecords(records)) = 3
    /\ "sleep_trend" \notin ChartsShown(summary)
    /\ "mood_trend" \in ChartsShown(summary)

\* C7: a metric field is in the summary's metrics only if a record of the
\* window contributed to it; the card's metrics grid shows "N/A" exactly for
\* the absent fields and the number (also a 0) for the others.
AbsentNotZero ==
    Computed =>
        LET card == DashboardCard(summary, FALSE)
        IN \A n \in MetricNames :
             LET has == \E r \in WindowRecords(records) :
                            FieldOf(n) \in DOMAIN r.vals
             IN /\ (n \in DOMAIN summary.metrics) <=> has
                /\ card.state = "card" =>
                     /\ (card.metrics[n] = NotAvailable) <=> ~has
                     /\ has => /\ card.metrics[n].text = "number"
                               /\ card.metrics[n].value =
                                    IF n = "avg_sleep_duration"
                                    THEN ToFixed1(summary.metrics[n])
                                    ELSE Round(summary.metrics[n])

\* a rendered card whose avg_steps is 0 and whose sleep duration is absent
AbsentNotZeroWitness ==
    /\ Computed
    /\ DashboardCard(summary, FALSE).state = "card"
    /\ "avg_steps" \in DOMAIN summary.metrics
    /\ summary.metrics["avg_steps"] = 0
    /\ DashboardCard(summary, FALSE).metrics["avg_steps"].text = "number"
    /\ DashboardCard(summary, FALSE).metrics["avg_sleep_duration"]
          = NotAvailable

\* C19: the card of a computed summary (not loading) shows "No Data Yet"
\* only when the summary has no metrics; a summary with metrics and a score
\* in [0,100], a score of exactly 0 included, is rendered with its score,
\* status and metrics.
EmptyStateOnlyWithoutData ==
    Computed =>
        LET card == DashboardCard(summary, FALSE)
        IN /\ card.state = "No Data Yet" => DOMAIN summary.metrics = {}
           /\ (/\ DOMAIN summary.metrics # {}
               /\ 0 <= summary.wellness_score
               /\ summary.wellness_score <= Full)
               => /\ card.state = "card"
                  /\ card.score = Round(summary.wellness_score)
                  /\ card.status = summary.status

\* C20: the insights / recommendations block of a rendered card appears if
\* and only if one of the two lists is non-empty, each list section appears
\* only for a non-empty list, and with both lists empty nothing is rendered.
EmptyListsRenderNothing ==
    (Computed /\ DashboardCard(summary, FALSE).state = "card") =>
        LET block == DashboardCard(summary, FALSE).insights
            some == Len(summary.insights) > 0
                        \/ Len(summary.recommendations) > 0
        IN /\ (block.shows = "block") <=> some
           /\ ~some => block.shows = "nothing"
           /\ some => /\ block.insights <=> Len(summary.insights) > 0
                      /\ block.recommendations
                            <=> Len(summary.recommendations) > 0

----------------------------------------------------------------------------
(* Claims about the Dashboard (SpecDash) *)

\* the Dashboard shows one of its two "no data" states
EmptyStateShown ==
    \/ /\ DashboardView.errorBox.shown
       /\ DashboardView.errorBox.title = "No Data Available Yet"
    \/ /\ DashboardView.summarySection.shown
       /\ DashboardView.summarySection.card.state = "No Data Yet"

\* C2: zero records in the window give a no-data result, never a summary
\* with score 0; the Dashboard renders an empty state for it, and does not
\* render that empty state for a request that failed.
NoDataDistinguishable ==
    /\ (WindowRecords(records) = {}) <=> (computeSummary(records) = NoDataResult)
    /\ lastOutcome = "nodata" => EmptyStateShown
    /\ lastOutcome = "failed" => ~EmptyStateShown

\* the answer to the fetch that was issued last, once every fetch completed
LatestAnswer == CHOOSE a \in answered : \A b \in answered : b[1] <= a[1]

\* C13: once all overlapping health-summary fetches have completed, error and
\* healthSummary are those of the fetch that was issued last: its summary
\* with no error if it succeeded, the error if it failed.
LatestRefreshWins ==
    (userId # Null /\ fetches = {} /\ answered # {})
    => IF LatestAnswer[2] = "summary"
       THEN error = Null /\ healthSummary # Null
       ELSE error = Just(UnableToLoad)

\* the summary section as rendered in the next state
SummaryShownNext == DashboardView'.summarySection.shown

\* the fetch that was started last is answered with a summary
NewestResolved ==
    /\ FetchResolved
    /\ \E t \in fetches :
          /\ t \notin fetches'
          /\ \A u \in fetches : u <= t
          /\ \A c \in answered : c[1] < t

\* a fetch completes in this step and the answer is one of `outcomes`
FetchEnded(outcomes) ==
    /\ fetches' # fetches
    /\ fetches' \subseteq fetches
    /\ lastOutcome' \in outcomes

----------------------------------------------------------------------------
(* Claims about the forms (SpecForms) *)

LoggedIn == userId # Null /\ userId.val # ""

EmptyKeys(keys) == {k \in Range(keys) : form[k] = ""}

\* C9: a logged-in user's submit of PhysicalHealthForm with an empty field
\* sends no request, sets the error to the list of exactly the empty fields,
\* leaves the values and isLoading (false) unchanged and does not call
\* onSubmit; a request is sent only when all six fields are non-empty.
PhysicalValidation ==
    /\ [][(PhysicalHandleSubmit /\ LoggedIn /\ EmptyKeys(PhysicalKeys) # {})
            => /\ saving' = Null
               /\ formError' # Null
               /\ formError'.val.text = "Please fill: "
               /\ Len(formError'.val.list)
                    = Cardinality(EmptyKeys(PhysicalKeys))
               /\ Range(formError'.val.list)
                    = {Spaced(k) : k \in EmptyKeys(PhysicalKeys)}
               /\ form' = form
               /\ isLoading' = FALSE
               /\ refreshTrigger' = refreshTrigger]_vars
    /\ [][(formKind = "physical" /\ saving = Null /\ saving' # Null)
            => /\ LoggedIn
               /\ \A k \in {"heart_rate", "bp_sys", "bp_dia", "steps",
                            "calories_burned", "temperature"} :
                     form[k] # ""]_vars

\* the error lists two empty fields, a filled field kept, nothing sent
PhysicalValidationWitness ==
    /\ formKind = "physical"
    /\ formError = Just(PleaseFill(<<"steps", "temperature">>))
    /\ form["heart_rate"] = "72"
    /\ form["steps"] = ""
    /\ saving = Null
    /\ ~isLoading

NearestValid(r) ==
    [day |-> r.day,
     vals |-> [k \in DOMAIN r.vals |->
        IF k = "steps" THEN (IF r.vals[k] < 0 THEN 0 ELSE r.vals[k])
        ELSE IF k \in {"mood_score", "stress_level", "anxiety_level",
                       "energy_level"}
        THEN (IF r.vals[k] < 1 THEN 1
              ELSE IF r.vals[k] > 10 THEN 10 ELSE r.vals[k])
        ELSE r.vals[k]]]

\* C6: a record with an out-of-domain value is clamped to the nearest valid
\* bound and the summary is still computed; the forms send every non-empty
\* value as entered, whatever its range, so such values reach the engine.
OutOfDomainDegrades ==
    /\ [](Computed =>
            /\ summary = computeSummary({NearestValid(r) : r \in records})
            /\ 0 <= summary.wellness_score
            /\ summary.wellness_score <= Full)
    /\ [](summary # None /\ records # {} => Computed)
    /\ [][(PhysicalHandleSubmit /\ LoggedIn /\ EmptyKeys(PhysicalKeys) = {})
            => /\ saving' # Null
               /\ form["steps"] = "-500" => saving'.val.steps = -500
               /\ form["steps"] = "9000" => saving'.val.steps = 9000]_vars
    /\ [][(MentalHandleSubmit /\ LoggedIn /\ EmptyKeys(requiredFields) = {})
            => /\ saving' # Null
               /\ form["mood_score"] = "12" => saving'.val.mood_score = 12
               /\ form["mood_score"] = "8" => saving'.val.mood_score = 8]_vars

\* a summary computed from a stored record with negative steps
OutOfDomainDegradesWitness ==
    /\ Computed
    /\ \E r \in records : "steps" \in DOMAIN r.vals /\ r.vals["steps"] < 0

FailedSave ==
    /\ [][SaveFailed
            => /\ formError' # Null
               /\ formError'.val.list = <<>>
               /\ formError'.val.text \in
                     {"Failed to fetch", "Invalid data",
                      "Failed to save physical health data",
                      "Failed to save mental health data"}
               /\ form' = form
               /\ success' = success
               /\ timers' = timers
               /\ refreshTrigger' = refreshTrigger
               /\ fetches' = fetches
               /\ records' = records
               /\ ~isLoading'
               /\ saving' = Null]_vars
    /\ [][(saving # Null /\ saving' = Null /\ formError' # Null)
            => SaveFailed]_vars

\* the backend refused a mental submission; the values are still entered
FailedSaveWitness ==
    /\ formKind = "mental"
    /\ formError = Just(Message("Invalid data"))
    /\ form["mood_score"] = "8"
    /\ form["stress_level"] = "3"
    /\ ~isLoading
    /\ ~success
    /\ refreshTrigger = 0
    /\ records = {}

\* C18: the success message of a save stays until the timer that save
\* started fires: while a timer is pending (the newest save's timer fires
\* last) success is true.
SuccessUntilOwnTimer == timers > 0 => success

\* a submit of the form that is mounted
FormSubmit == PhysicalHandleSubmit \/ MentalHandleSubmit

\* the Dashboard's summary effect runs in this step
EffectRuns == refreshTrigger' # refreshTrigger

\* C21 as stated: whenever localStorage holds no user_id, a submit of either
\* form and the Dashboard's summary effect set "User not logged in" and
\* send no request; isLoading stays false, loading becomes false.
NoRequestWithoutUser ==
    /\ [][(FormSubmit /\ NoUser(userId))
            => /\ formError' = Just(Message(NotLoggedIn))
               /\ saving' = Null
               /\ ~isLoading']_vars
    /\ [][(EffectRuns /\ NoUser(userId))
            => /\ error' = Just(NotLoggedIn)
               /\ fetches' = fetches
               /\ ~loading']_vars

\* C21: a submit of either form whose last render read no user_id from
\* localStorage sets "User not logged in", sends no request and leaves
\* isLoading false, and no request is sent by a form that read none; a run of
\* the Dashboard's summary effect while localStorage holds no user_id sets
\* "User not logged in", starts no fetch and sets loading to false.
NoRequestWithoutRenderedUser ==
    /\ [][(FormSubmit /\ NoUser(formUserId))
            => /\ formError' = Just(Message(NotLoggedIn))
               /\ saving' = Null
               /\ ~isLoading'
               /\ form' = form
               /\ records' = records]_vars
    /\ [][(saving = Null /\ saving' # Null)
            => /\ ~NoUser(formUserId)
               /\ saving'.val.user_id = 42]_vars
    /\ [][(EffectRuns /\ NoUser(userId))
            => /\ error' = Just(NotLoggedIn)
               /\ fetches' = fetches
               /\ ~loading']_vars

\* localStorage was cleared under a filled physical form: its submit and the
\* Dashboard's effect both report the missing user, nothing is in flight
NoRequestWithoutRenderedUserWitness ==
    /\ userId = Null
    /\ formKind = "physical"
    /\ EmptyKeys(PhysicalKeys) = {}
    /\ formError = Just(Message(NotLoggedIn))
    /\ error = Just(NotLoggedIn)
    /\ saving = Null
    /\ fetches = {}
    /\ ~isLoading
    /\ ~loading
    /\ refreshTrigger = 1

----------------------------------------------------------------------------
(* Claims about the router, SignIn and OAuthCallback (SpecAuth) *)

\* C11: starting from an empty localStorage the Dashboard is rendered only
\* when a non-empty user_id is stored, which only a successful signup or
\* login stores; a visit of /dashboard without one ends on /signin.
DashboardGate ==
    /\ [](location = "/dashboard" => LoggedIn /\ attempts > 0)
    /\ [](NoUser(userId) => Dest("/dashboard", userId) = "/signin")
    /\ [][userId' # userId => AuthSucceeded]_vars
    /\ [][location' = "/dashboard" => ~NoUser(userId')]_vars

\* the Dashboard is rendered for the user a signup stored
DashboardGateWitness ==
    /\ location = "/dashboard"
    /\ userId = Just("7")
    /\ attempts = 1

\* C12: user_id is written only by the continuation of an accepted signup or
\* login and is the user_id of that response as a string, and SignIn moves
\* to /dashboard only with that write; a failed attempt leaves user_id and
\* the route alone and sets error to the failure message.
SignInOutcome ==
    /\ [][\A p \in authPending : SignInSettled(p) =>
            IF p.answer.kind = "ok" /\ p.answer.user_id # Null
            THEN /\ p.answer.user_id = Just(7) => userId' = Just("7")
                 /\ p.answer.user_id = Just(42) => userId' = Just("42")
                 /\ location' = "/dashboard"
            ELSE /\ userId' = userId
                 /\ location' = location
                 /\ p.live => /\ signInError' # ""
                              /\ signInError' = FailureText(p)]_vars
    /\ [][userId' # userId =>
            \E p \in authPending : p.answer.kind = "ok" /\ SignInSettled(p)]_vars
    /\ [][\A p \in authPending :
            (SignInSettled(p) /\ location' # location) =>
                /\ p.answer.kind = "ok"
                /\ userId' # Null
                /\ userId'.val # ""]_vars

\* a signup stored user 7; back on /signin a login was refused: its message
\* is shown, user_id is still 7 and the route is still /signin
SignInOutcomeWitness ==
    /\ signInError = "Invalid credentials"
    /\ userId = Just("7")
    /\ location = "/signin"
    /\ isLogin
    /\ attempts = 2
    /\ authPending = {}

\* C14: once the callback handling has ended with an error set, loading is
\* false, so that the message and the button replace the spinner.
OAuthErrorVisible ==
    (location = "/oauth/callback" /\ oauthError # Null
        /\ "live" \notin oauthPending)
    => ~oauthLoading /\ OAuthView = "error"

====
